---- MODULE Spec2Model ----
(***************************************************************************)
(* Recurring-message bot (src/bot.py): one repeating job per chat, kept in  *)
(* an SQLite table (the Job Store) and in the telegram job queue (the      *)
(* Registry).  The model covers the table, the job queue, the /set, /stop   *)
(* and /status handlers, the start-up code of main() that reschedules the  *)
(* stored jobs, and the runs of the jobs (send_recurring_message).         *)
(***************************************************************************)
EXTENDS Integers, Sequences, FiniteSets, Bags, TLC

VARIABLES
    pc,        \* where the process is: "down", "init" (after init_db), "polling"
    dbFile,    \* whether jobs.db exists on disk
    rows,      \* the rows of table jobs: [chat_id, job_data (pickled blob)]
    jobs,      \* context.job_queue: a bag of scheduled jobs
    loadLog,   \* the counts main() logged as "Loaded and rescheduled N jobs"
    reply,     \* the last command handled by this process and its outcome
    lastDone,  \* per chat, the last command that completed normally (history)
    now,       \* the clock, in seconds
    sched,     \* per chat, the run times of its job: since, next_t, runs
    inflight,  \* the send_recurring_message callbacks that await their send
    outcome    \* how the callback that finished last ended

vars == <<pc, dbFile, rows, jobs, loadLog, reply, lastDone,
          now, sched, inflight, outcome>>

(***************************************************************************)
(* Values                                                                  *)
(***************************************************************************)
None == "None"

\* Chat identifiers: a private chat and the group with the opposite id.
Chats == {7, -7}

MIN_MINUTES == 1
MAX_MINUTES == 60
SECONDS_PER_MINUTE == 60
RESTART_FIRST == 10
DEFAULT_INTERVAL_MINUTES == 1

\* Reply texts of the handlers.
MsgMustReply   == "Error: You must reply to a message to schedule it."
MsgRange       == "Error: Please provide a time between 1 and 60 minutes."
MsgUnsupported == "Sorry, that media type is not supported."
MsgSetOk       == "Message set successfully! It will repeat every N minutes."
MsgUsage       == "Usage: Reply to a message with /set <minutes>"
MsgStopped     == "Timer successfully stopped! The schedule has been cleared."
\* The handler raised (sqlite3.Error is not caught): no reply is sent.
Raised         == "sqlite3.Error"

(***************************************************************************)
(* str() and int() on the values the handlers apply them to.  A string is  *)
(* a sequence of one-character strings.                                    *)
(***************************************************************************)
Digit == <<"0", "1", "2", "3", "4", "5", "6", "7", "8", "9">>

IsDigit(ch) == \E i \in DOMAIN Digit : Digit[i] = ch

DigitVal(ch) == (CHOOSE i \in DOMAIN Digit : Digit[i] = ch) - 1

RECURSIVE Digits(_)
Digits(n) ==
    IF n < 10 THEN <<Digit[n + 1]>>
    ELSE Digits(n \div 10) \o <<Digit[(n % 10) + 1]>>

str(n) == IF n < 0 THEN <<"-">> \o Digits(-n) ELSE Digits(n)

RECURSIVE DigitsValue(_)
DigitsValue(s) ==
    IF Len(s) = 0 THEN 0
    ELSE DigitsValue(SubSeq(s, 1, Len(s) - 1)) * 10 + DigitVal(s[Len(s)])

ValueError == [ok |-> FALSE, value |-> 0]

\* int(token): optional sign, then one or more digits; anything else raises
\* ValueError.
int(tok) ==
    LET signed == Len(tok) > 0 /\ tok[1] \in {"-", "+"}
        body   == IF signed THEN Tail(tok) ELSE tok
    IN  IF Len(body) = 0 \/ \E i \in DOMAIN body : ~IsDigit(body[i])
        THEN ValueError
        ELSE [ok |-> TRUE,
              value |-> IF signed /\ tok[1] = "-" THEN -DigitsValue(body)
                        ELSE DigitsValue(body)]

(***************************************************************************)
(* Messages a /set can reply to.  photo is the list of sizes (file ids),   *)
(* the other media fields a file id or None.                               *)
(***************************************************************************)
\* How many sizes the photo of a photo message comes in.
MaxPhotoSizes == 2

PhotoIds == <<"photo_1", "photo_2", "photo_3", "photo_4">>

PhotoSizes == SubSeq(PhotoIds, 1, MaxPhotoSizes)

EmptyMessage ==
    [text |-> None, photo |-> <<>>, video |-> None, document |-> None,
     audio |-> None, sticker |-> None, caption |-> None]

TextMessage     == [EmptyMessage EXCEPT !.text = "hello"]
PhotoMessage    == [EmptyMessage EXCEPT !.photo = PhotoSizes, !.caption = "look"]
PhotoNoCaption  == [EmptyMessage EXCEPT !.photo = PhotoSizes]
VideoMessage    == [EmptyMessage EXCEPT !.video = "video_1", !.caption = "watch"]
DocumentMessage == [EmptyMessage EXCEPT !.document = "doc_1"]
AudioMessage    == [EmptyMessage EXCEPT !.audio = "audio_1", !.caption = "listen"]
StickerMessage  == [EmptyMessage EXCEPT !.sticker = "sticker_1"]
\* A message of a kind the bot does not handle (a location, a poll, ...).
OtherMessage    == EmptyMessage

AllMessages ==
    {TextMessage, PhotoMessage, PhotoNoCaption, VideoMessage, DocumentMessage,
     AudioMessage, StickerMessage, OtherMessage}

\* update.message.reply_to_message: <<>> when the command replies to nothing.
ReplyTo(messages) == {<<>>} \cup {<<m>> : m \in messages}

\* context.args of a /set command.
SetArgs ==
    { <<>>,
      << <<"a", "b", "c">> >>,
      << <<"0">> >>,
      << <<"1">> >>,
      << <<"6", "0">> >>,
      << <<"6", "1">> >>,
      << <<"-", "1">> >> }

(***************************************************************************)
(* job_data and its pickled form                                           *)
(***************************************************************************)
NewJobData(minutes) ==
    [media_type |-> None, interval_minutes |-> minutes, text |-> None,
     caption |-> None, file_id |-> None]

Supported(m) ==
    \/ m.text # None
    \/ Len(m.photo) > 0
    \/ m.video # None
    \/ m.document # None
    \/ m.audio # None
    \/ m.sticker # None

\* The if/elif chain that fills job_data from the replied message.
PopulateJobData(d, m) ==
    IF m.text # None THEN
        [d EXCEPT !.media_type = "text", !.text = m.text]
    ELSE IF Len(m.photo) > 0 THEN
        [d EXCEPT !.media_type = "photo", !.file_id = m.photo[Len(m.photo)],
                  !.caption = m.caption]
    ELSE IF m.video # None THEN
        [d EXCEPT !.media_type = "video", !.file_id = m.video,
                  !.caption = m.caption]
    ELSE IF m.document # None THEN
        [d EXCEPT !.media_type = "document", !.file_id = m.document,
                  !.caption = m.caption]
    ELSE IF m.audio # None THEN
        [d EXCEPT !.media_type = "audio", !.file_id = m.audio,
                  !.caption = m.caption]
    ELSE IF m.sticker # None THEN
        [d EXCEPT !.media_type = "sticker", !.file_id = m.sticker]
    ELSE d

JobKeys == <<"media_type", "interval_minutes", "text", "caption", "file_id">>

\* pickle.dumps of the dict: its items, in insertion order.
pickle_dumps(d) == [i \in DOMAIN JobKeys |-> <<JobKeys[i], d[JobKeys[i]]>>]

PickleItem(blob, key) == blob[CHOOSE i \in DOMAIN blob : blob[i][1] = key][2]

\* Variant: the optional caption is not restored.
LoadsWithoutCaption(blob) ==
    [media_type       |-> PickleItem(blob, "media_type"),
     interval_minutes |-> PickleItem(blob, "interval_minutes"),
     text             |-> PickleItem(blob, "text"),
     caption          |-> None,
     file_id          |-> PickleItem(blob, "file_id")]

\* pickle.loads: the dict rebuilt from the items.
pickle_loads(blob) ==
    [media_type       |-> PickleItem(blob, "media_type"),
     interval_minutes |-> PickleItem(blob, "interval_minutes"),
     text             |-> PickleItem(blob, "text"),
     caption          |-> PickleItem(blob, "caption"),
     file_id          |-> PickleItem(blob, "file_id")]

\* dict.get(key, default)
DictGet(d, key, default) == IF key \in DOMAIN d THEN d[key] ELSE default

(***************************************************************************)
(* The Job Store: table jobs(chat_id INTEGER PRIMARY KEY, job_data BLOB)   *)
(***************************************************************************)
\* Variant: a plain INSERT into a table without the primary key.
InsertOnly(table, chat_id, job_data) ==
    table \cup {[chat_id |-> chat_id, job_data |-> pickle_dumps(job_data)]}

\* INSERT OR REPLACE: a row with the same primary key is deleted first.
save_job_to_db(table, chat_id, job_data) ==
    {r \in table : r.chat_id # chat_id}
        \cup {[chat_id |-> chat_id, job_data |-> pickle_dumps(job_data)]}

\* Variant: the DELETE is never committed.
DeleteNotCommitted(table, chat_id) == table

\* Variant: DELETE without the WHERE clause.
DeleteAllRows(table, chat_id) == {}

delete_job_from_db(table, chat_id) == {r \in table : r.chat_id # chat_id}

\* Variant: SELECT without the WHERE clause.
LoadAnyRow(table, chat_id) ==
    IF table = {} THEN <<>>
    ELSE <<pickle_loads((CHOOSE r \in table : TRUE).job_data)>>

\* SELECT ... WHERE chat_id = ?; fetchone(): <<>> for None.
load_job_from_db(table, chat_id) ==
    IF \E r \in table : r.chat_id = chat_id
    THEN <<pickle_loads((CHOOSE r \in table : r.chat_id = chat_id).job_data)>>
    ELSE <<>>

\* The rows in rowid (= chat_id) order, as SELECT returns them.
RECURSIVE FetchAll(_)
FetchAll(table) ==
    IF table = {} THEN <<>>
    ELSE LET r == CHOOSE x \in table : \A y \in table : x.chat_id <= y.chat_id
         IN  <<r>> \o FetchAll(table \ {r})

\* pickle.loads raises (UnpicklingError, EOFError) on a byte string that is
\* not a complete pickle: here, one from which an item of the dict is missing.
UnpicklingError(blob) ==
    \E i \in DOMAIN JobKeys : \A k \in DOMAIN blob : blob[k][1] # JobKeys[i]

\* load_all_jobs_from_db has no try: the list comprehension of line 62 raises
\* as soon as one row cannot be unpickled, and no row is returned.
LoadAllRaises(exists, table) ==
    exists /\ \E r \in table : UnpicklingError(r.job_data)

load_all_jobs_from_db(exists, table) ==
    IF ~exists THEN <<>>
    ELSE LET fetched == FetchAll(table)
         IN  [i \in DOMAIN fetched |->
                 <<fetched[i].chat_id, pickle_loads(fetched[i].job_data)>>]

(***************************************************************************)
(* The Registry: context.job_queue                                         *)
(***************************************************************************)
get_jobs_by_name(queue, name) == {j \in BagToSet(queue) : j.name = name}

\* What remove_job_if_exists returns: whether a job of that name was found.
JobExists(queue, name) == get_jobs_by_name(queue, name) # {}

\* Variant: the old job is left in the queue.
RemoveNothing(queue, name) == queue

\* What remove_job_if_exists leaves in the queue: schedule_removal() of every
\* job of that name.
remove_job_if_exists(queue, name) ==
    LET keep == {j \in BagToSet(queue) : j.name # name}
    IN  [j \in keep |-> queue[j]]

\* Variant: the first run is immediate.
RunRepeatingAtOnce(queue, interval, first, chat_id, name, data) ==
    queue (+) SetToBag({[name |-> name, chat_id |-> chat_id,
                         interval |-> interval, first |-> 0,
                         data |-> data]})

run_repeating(queue, interval, first, chat_id, name, data) ==
    queue (+) SetToBag({[name |-> name, chat_id |-> chat_id,
                         interval |-> interval, first |-> first,
                         data |-> data]})

(***************************************************************************)
(* /set: set_timer                                                         *)
(***************************************************************************)
Rejected(table, queue, text) ==
    [rows |-> table, jobs |-> queue, text |-> text, minutes |-> 0,
     data |-> NewJobData(0), removed |-> FALSE]

\* Variant: the queue is changed before the table is written.
ScheduleThenPersist(table, queue, chat_id, job_data, put_ok) ==
    LET minutes          == job_data.interval_minutes
        interval_seconds == minutes * SECONDS_PER_MINUTE
        cleared          == remove_job_if_exists(queue, str(chat_id))
        scheduled        == run_repeating(cleared, interval_seconds,
                                          interval_seconds, chat_id,
                                          str(chat_id), job_data)
    IN  IF ~put_ok THEN Rejected(table, scheduled, Raised)
        ELSE [rows    |-> save_job_to_db(table, chat_id, job_data),
              jobs    |-> scheduled,
              text    |-> MsgSetOk,
              minutes |-> minutes,
              data    |-> job_data,
              removed |-> JobExists(queue, str(chat_id))]

\* Lines 173-188: save to the table first, then replace the job in the queue.
\* put_ok is whether SQLite accepted the write; sqlite3.Error is not caught by
\* the handler, so nothing after the failing call runs.
PersistThenSchedule(table, queue, chat_id, job_data, put_ok) ==
    IF ~put_ok THEN Rejected(table, queue, Raised)
    ELSE LET saved            == save_job_to_db(table, chat_id, job_data)
             minutes          == job_data.interval_minutes
             interval_seconds == minutes * SECONDS_PER_MINUTE
             cleared          == remove_job_if_exists(queue, str(chat_id))
         IN  [rows    |-> saved,
              jobs    |-> run_repeating(cleared, interval_seconds,
                                        interval_seconds, chat_id,
                                        str(chat_id), job_data),
              text    |-> MsgSetOk,
              minutes |-> minutes,
              data    |-> job_data,
              removed |-> JobExists(queue, str(chat_id))]

\* Variant: the range check excludes its end points.
InRangeExclusive(minutes) == MIN_MINUTES < minutes /\ minutes < MAX_MINUTES

InRange(minutes) == MIN_MINUTES <= minutes /\ minutes <= MAX_MINUTES

\* The whole handler: what it leaves in the table and the queue, and its reply.
SetTimerResult(table, queue, chat_id, reply_to, args, put_ok) ==
    IF Len(reply_to) = 0 THEN Rejected(table, queue, MsgMustReply)
    ELSE IF Len(args) = 0 THEN Rejected(table, queue, MsgUsage)  \* IndexError
    ELSE LET parsed == int(args[1])
         IN  IF ~parsed.ok THEN Rejected(table, queue, MsgUsage) \* ValueError
             ELSE IF ~InRange(parsed.value)
                  THEN Rejected(table, queue, MsgRange)
             ELSE IF ~Supported(reply_to[1])
                  THEN Rejected(table, queue, MsgUnsupported)
             ELSE PersistThenSchedule(
                      table, queue, chat_id,
                      PopulateJobData(NewJobData(parsed.value), reply_to[1]),
                      put_ok)

(***************************************************************************)
(* /stop: stop_timer                                                       *)
(***************************************************************************)
\* Variant: the row is deleted but the job stays in the queue.
StopDeleteOnly(table, queue, chat_id, delete_ok) ==
    IF ~delete_ok
    THEN [rows |-> table, jobs |-> queue, text |-> Raised, removed |-> FALSE]
    ELSE [rows |-> delete_job_from_db(table, chat_id), jobs |-> queue,
          text |-> MsgStopped, removed |-> FALSE]

\* Lines 196-200: the job is removed first, then the row is deleted; the reply
\* does not depend on what was found.
StopTimerResult(table, queue, chat_id, delete_ok) ==
    LET cleared == remove_job_if_exists(queue, str(chat_id))
    IN  IF ~delete_ok
        THEN [rows |-> table, jobs |-> cleared, text |-> Raised,
              removed |-> JobExists(queue, str(chat_id))]
        ELSE [rows |-> delete_job_from_db(table, chat_id), jobs |-> cleared,
              text |-> MsgStopped,
              removed |-> JobExists(queue, str(chat_id))]

(***************************************************************************)
(* /status: status_command                                                 *)
(***************************************************************************)
MsgNoSchedule == "There is no recurring message scheduled for this chat."
MsgStatus     == "Current Schedule Status"

\* The fields of the status message; none in any other reply.
NoStatus == [shown |-> FALSE]
PREVIEW_LEN == 70

\* A text of more than PREVIEW_LEN characters; every other text of the model
\* is shorter.
LongText == "a text of 71 characters"
LongTextMessage == [EmptyMessage EXCEPT !.text = LongText]

len(text) == IF text = LongText THEN PREVIEW_LEN + 1 ELSE 5

\* str.capitalize() and str.lower() on the media types.
capitalize(w) ==
    CASE w = "text" -> "Text"         [] w = "photo" -> "Photo"
      [] w = "video" -> "Video"       [] w = "document" -> "Document"
      [] w = "audio" -> "Audio"       [] w = "sticker" -> "Sticker"
      [] OTHER -> "Unknown"

lower(w) ==
    CASE w = "Text" -> "text"         [] w = "Photo" -> "photo"
      [] w = "Video" -> "video"       [] w = "Document" -> "document"
      [] w = "Audio" -> "audio"       [] w = "Sticker" -> "sticker"
      [] OTHER -> "unknown"

\* Lines 220-229.  A text is shown whole, or its first PREVIEW_LEN characters
\* followed by an ellipsis; other content by its kind and caption, if any.
ContentDesc(job_data, media_type) ==
    IF lower(media_type) = "text"
    THEN LET text == DictGet(job_data, "text", "")
         IN  IF len(text) > PREVIEW_LEN
             THEN [of |-> text, upto |-> PREVIEW_LEN, ellipsis |-> TRUE]
             ELSE [of |-> text, upto |-> len(text), ellipsis |-> FALSE]
    ELSE LET caption == DictGet(job_data, "caption", None)
         IN  [message |-> lower(media_type),
              with_caption |-> IF caption # None THEN <<caption>> ELSE <<>>]

\* Lines 212-215: the next run time of the chat's first job, if it has one.
NextRunDisplay(queue, s, chat_id) ==
    IF JobExists(queue, str(chat_id)) /\ s[chat_id].next_t # 0
    THEN [pending_restart |-> FALSE, next_t |-> s[chat_id].next_t]
    ELSE [pending_restart |-> TRUE, next_t |-> 0]

\* The message status_command replies with.
StatusMessage(table, queue, s, chat_id) ==
    LET loaded == load_job_from_db(table, chat_id)
    IN  IF loaded = <<>> THEN [text |-> MsgNoSchedule, status |-> NoStatus]
        ELSE LET job_data   == loaded[1]
                 media_type == capitalize(DictGet(job_data, "media_type",
                                                  "Unknown"))
             IN  [text   |-> MsgStatus,
                  status |->
                    [frequency    |-> DictGet(job_data, "interval_minutes", "N/A"),
                     content_type |-> media_type,
                     preview      |-> ContentDesc(job_data, media_type),
                     next_send    |-> NextRunDisplay(queue, s, chat_id)]]

(***************************************************************************)
(* main(): the start-up rescheduling loop                                  *)
(***************************************************************************)
RECURSIVE RescheduleAll(_, _)
RescheduleAll(queue, jobs_to_load) ==
    IF Len(jobs_to_load) = 0 THEN queue
    ELSE LET chat_id  == Head(jobs_to_load)[1]
             job_data == Head(jobs_to_load)[2]
             interval_seconds ==
                 DictGet(job_data, "interval_minutes", DEFAULT_INTERVAL_MINUTES)
                     * SECONDS_PER_MINUTE
         IN  RescheduleAll(
                 run_repeating(queue, interval_seconds, RESTART_FIRST, chat_id,
                               str(chat_id), job_data),
                 Tail(jobs_to_load))

(***************************************************************************)
(* State machine                                                           *)
(***************************************************************************)
\* reply.removed: what remove_job_if_exists returned to the handler (FALSE if
\* it was not called).  reply.after_stop: the command handled just before this
\* one was a /stop of the same chat (history).
NoCommand ==
    [op |-> "none", chat_id |-> 0, text |-> None, minutes |-> 0,
     removed |-> FALSE, after_stop |-> FALSE, status |-> NoStatus]

AfterStop(chat_id) == reply.op = "stop" /\ reply.chat_id = chat_id
NeverSet  == [op |-> "none", data |-> NewJobData(0)]

\* The job queue's clock for a chat's job: when it was put in the queue, when
\* it runs next, and how many times it has run.
NoSched == [since |-> 0, next_t |-> 0, runs |-> 0]

\* run_repeating(first = seconds): the first run is `first` seconds from now.
\* A chat in chat_ids whose job is not in the queue has no run time.
Arm(s, queue, chat_ids, t) ==
    [c \in Chats |->
        IF c \notin chat_ids THEN s[c]
        ELSE IF ~JobExists(queue, str(c)) THEN NoSched
        ELSE [since  |-> t,
              next_t |-> t + (CHOOSE j \in get_jobs_by_name(queue, str(c)) :
                                  TRUE).first,
              runs   |-> 0]]

NoOutcome ==
    [chat_id |-> 0, sends |-> 0, ok |-> TRUE, raised |-> FALSE, streak |-> 0]

\* The messages the /set commands of Spec reply to.
Messages == {TextMessage, PhotoMessage, OtherMessage}

Init ==
    /\ pc = "down"
    /\ dbFile = FALSE
    /\ rows = {}
    /\ jobs = EmptyBag
    /\ loadLog = <<>>
    /\ reply = NoCommand
    /\ lastDone = [c \in Chats |-> NeverSet]
    /\ now = 0
    /\ sched = [c \in Chats |-> NoSched]
    /\ inflight = {}
    /\ outcome = NoOutcome

\* main(), line 249: CREATE TABLE IF NOT EXISTS.  If it raises the process ends.
init_db(ok) ==
    /\ pc = "down"
    /\ IF ok THEN pc' = "init" /\ dbFile' = TRUE
             ELSE UNCHANGED <<pc, dbFile>>
    /\ UNCHANGED <<rows, jobs, loadLog, reply, lastDone>>
    /\ UNCHANGED <<now, sched, inflight, outcome>>

\* main(), lines 262-285: load every row, schedule a job for each, log the
\* count, register the handlers and start polling.  If reading the table
\* raises or a row cannot be unpickled, the process ends.
reschedule(ok) ==
    /\ pc = "init"
    /\ IF ok /\ ~LoadAllRaises(dbFile, rows)
       THEN LET jobs_to_load == load_all_jobs_from_db(dbFile, rows)
            IN  /\ jobs' = RescheduleAll(jobs, jobs_to_load)
                /\ loadLog' = Append(loadLog, Len(jobs_to_load))
                /\ sched' = Arm(sched, jobs', Chats, now)
                /\ pc' = "polling"
       ELSE /\ pc' = "down"
            /\ UNCHANGED <<jobs, loadLog, sched>>
    /\ UNCHANGED <<dbFile, rows, reply, lastDone, now, inflight, outcome>>

set_timer(chat_id, reply_to, args, put_ok) ==
    /\ pc = "polling"
    /\ \E r \in {SetTimerResult(rows, jobs, chat_id, reply_to, args, put_ok)} :
           /\ rows' = r.rows
           /\ jobs' = r.jobs
           /\ reply' = [op |-> "set", chat_id |-> chat_id, text |-> r.text,
                        minutes |-> r.minutes, removed |-> r.removed,
                        after_stop |-> AfterStop(chat_id), status |-> NoStatus]
           /\ lastDone' = IF r.text = MsgSetOk
                          THEN [lastDone EXCEPT
                                    ![chat_id] = [op |-> "set", data |-> r.data]]
                          ELSE lastDone
           /\ sched' = IF r.text = MsgSetOk
                       THEN Arm(sched, r.jobs, {chat_id}, now)
                       ELSE sched
    /\ UNCHANGED <<pc, dbFile, loadLog, now, inflight, outcome>>

stop_timer(chat_id, delete_ok) ==
    /\ pc = "polling"
    /\ \E r \in {StopTimerResult(rows, jobs, chat_id, delete_ok)} :
           /\ rows' = r.rows
           /\ jobs' = r.jobs
           /\ reply' = [op |-> "stop", chat_id |-> chat_id, text |-> r.text,
                        minutes |-> 0, removed |-> r.removed,
                        after_stop |-> AfterStop(chat_id), status |-> NoStatus]
           /\ lastDone' = IF r.text = MsgStopped
                          THEN [lastDone EXCEPT
                                    ![chat_id] = [op |-> "stop",
                                                  data |-> NewJobData(0)]]
                          ELSE lastDone
           /\ sched' = IF JobExists(r.jobs, str(chat_id))
                       THEN sched
                       ELSE [sched EXCEPT ![chat_id] = NoSched]
    /\ UNCHANGED <<pc, dbFile, loadLog, now, inflight, outcome>>

\* /status.  If reading the table raises, the handler ends without a reply.
status_command(chat_id, load_ok) ==
    /\ pc = "polling"
    /\ \E r \in {IF load_ok THEN StatusMessage(rows, jobs, sched, chat_id)
                             ELSE [text |-> Raised, status |-> NoStatus]} :
          reply' = [op |-> "status", chat_id |-> chat_id, text |-> r.text,
                    minutes |-> 0, removed |-> FALSE, after_stop |-> FALSE,
                    status |-> r.status]
    /\ UNCHANGED <<pc, dbFile, rows, jobs, loadLog, lastDone,
                   now, sched, inflight, outcome>>

\* The process stops: the job queue and everything else in memory is lost,
\* jobs.db stays.
Shutdown ==
    /\ pc = "polling"
    /\ pc' = "down"
    /\ jobs' = EmptyBag
    /\ loadLog' = <<>>
    /\ reply' = NoCommand
    /\ sched' = [c \in Chats |-> NoSched]
    /\ inflight' = {}
    /\ outcome' = NoOutcome
    /\ UNCHANGED <<dbFile, rows, lastDone, now>>

Next ==
    \/ \E ok \in BOOLEAN : init_db(ok)
    \/ \E ok \in BOOLEAN : reschedule(ok)
    \/ \E chat_id \in Chats, reply_to \in ReplyTo(Messages), args \in SetArgs,
          put_ok \in BOOLEAN : set_timer(chat_id, reply_to, args, put_ok)
    \/ \E chat_id \in Chats, delete_ok \in BOOLEAN : stop_timer(chat_id, delete_ok)
    \/ Shutdown

Spec == Init /\ [][Next]_vars

(***************************************************************************)
(* Restart over a table that already holds records.  Every record is one   *)
(* a /set wrote (any of the payload kinds, either end of the interval      *)
(* range); the process then starts, and handles /stop and a text /set.     *)
(***************************************************************************)
StoredJobData ==
    {PopulateJobData(NewJobData(minutes), m) :
        minutes \in {MIN_MINUTES, MAX_MINUTES},
        m \in {x \in AllMessages : Supported(x)}}

RECURSIVE SaveAll(_, _)
SaveAll(table, records) ==
    IF DOMAIN records = {} THEN table
    ELSE LET chat_id == CHOOSE c \in DOMAIN records : TRUE
         IN  SaveAll(save_job_to_db(table, chat_id, records[chat_id]),
                     [c \in DOMAIN records \ {chat_id} |-> records[c]])

InitStored ==
    /\ pc = "down"
    /\ dbFile = TRUE
    /\ \E held \in SUBSET Chats : \E records \in [held -> StoredJobData] :
           /\ rows = SaveAll({}, records)
           /\ lastDone = [c \in Chats |->
                              IF c \in held
                              THEN [op |-> "set", data |-> records[c]]
                              ELSE NeverSet]
    /\ jobs = EmptyBag
    /\ loadLog = <<>>
    /\ reply = NoCommand
    /\ now = 0
    /\ sched = [c \in Chats |-> NoSched]
    /\ inflight = {}
    /\ outcome = NoOutcome

NextStored ==
    \/ \E ok \in BOOLEAN : init_db(ok)
    \/ \E ok \in BOOLEAN : reschedule(ok)
    \/ \E chat_id \in Chats, put_ok \in BOOLEAN :
          set_timer(chat_id, <<TextMessage>>, << <<"1">> >>, put_ok)
    \/ \E chat_id \in Chats, delete_ok \in BOOLEAN : stop_timer(chat_id, delete_ok)
    \/ Shutdown

SpecStored == InitStored /\ [][NextStored]_vars

(***************************************************************************)
(* Restart over a table in which a record has been damaged.  While the     *)
(* process is down the file jobs.db is outside its control: a blob may be  *)
(* cut short.  The table itself stays readable.                            *)
(***************************************************************************)
Truncations(blob) == {SubSeq(blob, 1, n) : n \in 0 .. Len(blob) - 1}

DamageRow(chat_id) ==
    /\ pc = "down"
    /\ \E r \in rows :
          /\ r.chat_id = chat_id
          /\ ~UnpicklingError(r.job_data)
          /\ \E cut \in Truncations(r.job_data) :
                rows' = (rows \ {r}) \cup {[chat_id |-> chat_id, job_data |-> cut]}
    /\ UNCHANGED <<pc, dbFile, jobs, loadLog, reply, lastDone>>
    /\ UNCHANGED <<now, sched, inflight, outcome>>

NextDamaged ==
    \/ \E ok \in BOOLEAN : init_db(ok)
    \/ reschedule(TRUE)
    \/ \E chat_id \in Chats : DamageRow(chat_id)
    \/ \E chat_id \in Chats, delete_ok \in BOOLEAN : stop_timer(chat_id, delete_ok)
    \/ Shutdown

SpecDamaged == InitStored /\ [][NextDamaged]_vars

(***************************************************************************)
(* /status among /set and /stop: short and long texts, photos with and     *)
(* without a caption, either end of the interval range.                    *)
(***************************************************************************)
StatusMessages == {TextMessage, LongTextMessage, PhotoMessage, PhotoNoCaption}

NextStatus ==
    \/ init_db(TRUE)
    \/ reschedule(TRUE)
    \/ \E chat_id \in Chats, m \in StatusMessages,
          args \in {<< <<"1">> >>, << <<"6", "0">> >>}, put_ok \in BOOLEAN :
          set_timer(chat_id, <<m>>, args, put_ok)
    \/ \E chat_id \in Chats, delete_ok \in BOOLEAN : stop_timer(chat_id, delete_ok)
    \/ \E chat_id \in Chats, load_ok \in BOOLEAN : status_command(chat_id, load_ok)
    \/ Shutdown

SpecStatus == Init /\ [][NextStatus]_vars

(***************************************************************************)
(* Ticks.  The job queue runs send_recurring_message(job) when the job's   *)
(* next run time comes; the callback is a task of its own and awaits one   *)
(* send call, during which the handlers and the other callbacks can run.   *)
(***************************************************************************)
\* The clock is followed up to this time.
Horizon == 130

\* At most this many callbacks await their send at a time.
MaxInflight == 2

TheJob(queue, chat_id) == CHOOSE j \in get_jobs_by_name(queue, str(chat_id)) : TRUE

Due(chat_id) ==
    JobExists(jobs, str(chat_id)) /\ sched[chat_id].next_t = now

\* Variant: one callback at a time for the whole queue.
RunningAny(callbacks, chat_id, since) == callbacks # {}

\* The scheduler runs at most one instance of a job at a time; a job put in
\* the queue by a later /set is another job.
Running(callbacks, chat_id, since) ==
    \E t \in callbacks : t.job.chat_id = chat_id /\ t.since = since

\* The send call the callback makes for the job: the branch of its media_type,
\* none if no branch matches.
SendCalls(job) ==
    LET d == job.data
    IN  IF d.media_type = "text"
        THEN <<[method |-> "send_message", chat_id |-> job.chat_id,
                content |-> d.text, caption |-> None]>>
        ELSE IF d.media_type \in {"photo", "video", "document", "audio"}
        THEN <<[method |-> "send_" \o d.media_type, chat_id |-> job.chat_id,
                content |-> d.file_id, caption |-> d.caption]>>
        ELSE IF d.media_type = "sticker"
        THEN <<[method |-> "send_sticker", chat_id |-> job.chat_id,
                content |-> d.file_id, caption |-> None]>>
        ELSE <<>>

\* Variant: no try around the send.
SendWithoutTry(job, ok) ==
    [sends |-> Len(SendCalls(job)), logged |-> FALSE, raised |-> ~ok]

\* Lines 101-116: one send inside try; except Exception logs the error.
SendRecurringMessage(job, ok) ==
    [sends |-> Len(SendCalls(job)), logged |-> ~ok, raised |-> FALSE]

\* Time passes until the next run time of a job in the queue.
advance ==
    /\ \E t \in {sched[c].next_t : c \in {x \in Chats : JobExists(jobs, str(x))}} :
          /\ t > now
          /\ t <= Horizon
          /\ \A c \in Chats : JobExists(jobs, str(c)) => t <= sched[c].next_t
          /\ now' = t
    /\ UNCHANGED <<pc, dbFile, rows, jobs, loadLog, reply, lastDone,
                   sched, inflight, outcome>>

\* Variant: a job runs once and leaves the queue.
FireOnce(chat_id) ==
    /\ pc = "polling"
    /\ Due(chat_id)
    /\ Cardinality(inflight) < MaxInflight
    /\ jobs' = remove_job_if_exists(jobs, str(chat_id))
    /\ sched' = [sched EXCEPT ![chat_id].runs = @ + 1]
    /\ inflight' = inflight \cup {[job |-> TheJob(jobs, chat_id),
                                   since |-> sched[chat_id].since]}
    /\ UNCHANGED <<pc, dbFile, rows, loadLog, reply, lastDone, now, outcome>>

\* The job of the chat is due: its callback starts, unless the instance
\* started by an earlier run is still awaiting its send; the next run is one
\* interval after this one.
fire(chat_id) ==
    /\ pc = "polling"
    /\ Due(chat_id)
    /\ \/ Cardinality(inflight) < MaxInflight
       \/ Running(inflight, chat_id, sched[chat_id].since)
    /\ LET job == TheJob(jobs, chat_id)
       IN  /\ sched' = [sched EXCEPT ![chat_id].next_t = @ + job.interval,
                                     ![chat_id].runs = @ + 1]
           /\ inflight' =
                 IF Running(inflight, chat_id, sched[chat_id].since)
                 THEN inflight
                 ELSE inflight \cup {[job |-> job,
                                      since |-> sched[chat_id].since]}
    /\ UNCHANGED <<pc, dbFile, rows, jobs, loadLog, reply, lastDone,
                   now, outcome>>

\* Variant: a send that raises also takes the job out of the queue.
DeliverOrCancel(t, ok) ==
    /\ pc = "polling"
    /\ t \in inflight
    /\ inflight' = inflight \ {t}
    /\ outcome' = [chat_id |-> t.job.chat_id, sends |-> 1, ok |-> ok,
                   raised |-> FALSE, streak |-> IF ok THEN 0 ELSE 1]
    /\ jobs' = IF ok THEN jobs
               ELSE remove_job_if_exists(jobs, str(t.job.chat_id))
    /\ UNCHANGED <<pc, dbFile, rows, loadLog, reply, lastDone, now, sched>>

\* The send of a callback returns or raises, and the callback ends.
deliver(t, ok) ==
    /\ pc = "polling"
    /\ t \in inflight
    /\ inflight' = inflight \ {t}
    /\ \E r \in {SendRecurringMessage(t.job, ok)} :
          outcome' = [chat_id |-> t.job.chat_id,
                      sends |-> r.sends, ok |-> ok, raised |-> r.raised,
                      streak |-> IF ok THEN 0
                                 ELSE IF outcome.chat_id = t.job.chat_id
                                 THEN outcome.streak + 1
                                 ELSE 1]
    /\ UNCHANGED <<pc, dbFile, rows, jobs, loadLog, reply, lastDone,
                   now, sched>>

\* The /set requests of SpecTick: in one chat a text every minute or a photo
\* every two, in the other a text every minute.
TickRequests ==
    {[chat_id |-> 7, reply_to |-> <<TextMessage>>, args |-> << <<"1">> >>],
     [chat_id |-> 7, reply_to |-> <<PhotoMessage>>, args |-> << <<"2">> >>],
     [chat_id |-> -7, reply_to |-> <<TextMessage>>, args |-> << <<"1">> >>]}

NextTick ==
    \/ init_db(TRUE)
    \/ reschedule(TRUE)
    \/ \E q \in TickRequests : set_timer(q.chat_id, q.reply_to, q.args, TRUE)
    \/ stop_timer(7, TRUE)
    \/ Shutdown
    \/ advance
    \/ \E chat_id \in Chats : fire(chat_id)
    \/ \E t \in inflight, ok \in BOOLEAN : deliver(t, ok)

SpecTick == Init /\ [][NextTick]_vars

(***************************************************************************)
(* Properties                                                              *)
(***************************************************************************)
\* The live timers of a chat, and its records in the table.
LiveTimers(c) ==
    LET mine == {j \in BagToSet(jobs) : j.chat_id = c}
    IN  [j \in mine |-> jobs[j]]

HasTimer(c) == \E j \in BagToSet(jobs) : j.chat_id = c

RecordsOf(c) == {r \in rows : r.chat_id = c}

HasRecord(c) == RecordsOf(c) # {}

\* Exactly one live timer for c, and it carries d's interval and d itself.
OnlyTimer(c, d) ==
    /\ BagCardinality(LiveTimers(c)) = 1
    /\ \A j \in BagToSet(LiveTimers(c)) :
          /\ j.interval = d.interval_minutes * SECONDS_PER_MINUTE
          /\ j.data = d

\* Exactly one record for c, and it decodes to d.
OnlyRecord(c, d) ==
    /\ Cardinality(RecordsOf(c)) = 1
    /\ \A r \in RecordsOf(c) : pickle_loads(r.job_data) = d

SetSucceeded == reply.op = "set" /\ reply.text = MsgSetOk

Other(c) == CHOOSE b \in Chats : b # c

\* C1: every chat has at most one live timer and at most one record; right
\* after a successful /set the chat's only timer and only record are those of
\* that /set (its interval, its payload), whatever was scheduled before.
C1_OneTimerOneRecord ==
    /\ \A c \in Chats :
          /\ BagCardinality(LiveTimers(c)) <= 1
          /\ Cardinality(RecordsOf(c)) <= 1
    /\ SetSucceeded =>
          /\ lastDone[reply.chat_id].data.interval_minutes = reply.minutes
          /\ OnlyTimer(reply.chat_id, lastDone[reply.chat_id].data)
          /\ OnlyRecord(reply.chat_id, lastDone[reply.chat_id].data)

\* A /set succeeded on a chat that already had a live timer.
C1_Witness ==
    /\ SetSucceeded
    /\ reply.removed
    /\ reply.minutes = MAX_MINUTES
    /\ HasTimer(Other(reply.chat_id))

\* C2: a /set whose write to the table fails changes neither the table nor
\* the job queue.
C2_FailedPutChangesNothing ==
    [][(reply'.op = "set" /\ reply'.text = Raised)
          => (rows' = rows /\ jobs' = jobs)]_vars

\* The write of a /set failed on a chat that has a timer and a record.
C2_Witness ==
    /\ reply.op = "set"
    /\ reply.text = Raised
    /\ HasTimer(reply.chat_id)
    /\ HasRecord(reply.chat_id)

\* C3: once the process is polling, every live timer belongs to a chat that
\* has a record in the table.
C3_TimerHasRecord ==
    pc = "polling" => \A j \in BagToSet(jobs) : HasRecord(j.chat_id)

\* A table operation has just failed while timers are live.
C3_Witness == pc = "polling" /\ reply.text = Raised /\ jobs # EmptyBag

\* C4: once the process is polling, a chat has a record exactly when it has
\* a live timer.
C4_RecordIffTimer ==
    pc = "polling" => \A c \in Chats : HasRecord(c) <=> HasTimer(c)

\* C5: right after the start-up rescheduling, a chat whose last completed
\* command was a successful /set has exactly one timer, with that /set's
\* interval and payload; any other chat has none.
C5_ScheduleSurvivesRestart ==
    (pc = "polling" /\ reply = NoCommand) =>
        \A c \in Chats :
            IF lastDone[c].op = "set"
            THEN OnlyTimer(c, lastDone[c].data)
            ELSE ~HasTimer(c)

\* Rescheduled with one chat that was set and one that was stopped.
C5_Witness ==
    /\ pc = "polling"
    /\ reply = NoCommand
    /\ \E c \in Chats :
          lastDone[c].op = "set" /\ lastDone[Other(c)].op = "stop"

BadIntervalArgs ==
    { <<>>, << <<"a", "b", "c">> >>, << <<"0">> >>, << <<"6", "1">> >>,
      << <<"-", "1">> >> }

BoundaryArgs == { << <<"1">> >>, << <<"6", "0">> >> }

BadContent(reply_to) == reply_to = <<>> \/ reply_to = <<OtherMessage>>

Rejections == {MsgMustReply, MsgUsage, MsgRange, MsgUnsupported}

C6_Results ==
    pc = "polling" =>
        \A c \in Chats, reply_to \in ReplyTo(AllMessages), args \in SetArgs,
           put_ok \in BOOLEAN :
            \A res \in {SetTimerResult(rows, jobs, c, reply_to, args, put_ok)} :
                /\ (args \in BadIntervalArgs \/ BadContent(reply_to)) =>
                      /\ res.text \in Rejections
                      /\ res.rows = rows
                      /\ res.jobs = jobs
                /\ (args \in BoundaryArgs /\ ~BadContent(reply_to) /\ put_ok) =>
                      /\ res.text = MsgSetOk
                      /\ res.minutes \in {MIN_MINUTES, MAX_MINUTES}

\* C6: a /set with a missing, non-numeric or out-of-range interval, or with
\* no or unsupported content, is rejected and leaves the table and the queue
\* as they were; intervals 1 and 60 are accepted.
C6_InvalidSetRejected ==
    /\ []C6_Results
    /\ [][(reply'.op = "set" /\ reply'.text \in Rejections)
             => (rows' = rows /\ jobs' = jobs)]_vars

\* A /set was rejected for its interval on a chat that has a schedule.
C6_Witness ==
    /\ reply.op = "set"
    /\ reply.text = MsgRange
    /\ HasTimer(reply.chat_id)
    /\ HasRecord(reply.chat_id)

\* C7: /stop reports that the schedule was stopped only if the chat had a
\* live timer or a record when the command arrived.
C7_StopReportsActiveOnlyIfActive ==
    [][(reply' # reply /\ reply'.op = "stop" /\ reply'.text = MsgStopped)
          => (HasTimer(reply'.chat_id) \/ HasRecord(reply'.chat_id))]_vars

\* C8: a /stop leaves the record and the timer of every other chat alone; on
\* a chat with no schedule it changes nothing; and after a /stop that
\* completed, another /stop of the same chat would change nothing.
C8_StopIdempotentAndLocal ==
    [][(reply' # reply /\ reply'.op = "stop") =>
          /\ \A b \in Chats \ {reply'.chat_id} :
                /\ RecordsOf(b)' = RecordsOf(b)
                /\ LiveTimers(b)' = LiveTimers(b)
          /\ (~HasTimer(reply'.chat_id) /\ ~HasRecord(reply'.chat_id)) =>
                (rows' = rows /\ jobs' = jobs)
          /\ reply'.text = MsgStopped =>
                \A again \in {StopTimerResult(rows', jobs', reply'.chat_id, TRUE)} :
                    again.rows = rows' /\ again.jobs = jobs']_vars

\* A second /stop in a row for a chat, while the other chat has a schedule.
C8_Witness ==
    /\ reply.op = "stop"
    /\ reply.text = MsgStopped
    /\ reply.after_stop
    /\ HasTimer(Other(reply.chat_id))
    /\ HasRecord(Other(reply.chat_id))

\* C9: when a successful /set directly follows a /stop of the same chat, the
\* chat has exactly the new record and exactly one timer, which carries the
\* new interval and payload.
C9_StopThenSet ==
    (SetSucceeded /\ reply.after_stop) =>
        /\ lastDone[reply.chat_id].op = "set"
        /\ lastDone[reply.chat_id].data.interval_minutes = reply.minutes
        /\ RecordsOf(reply.chat_id) =
               {[chat_id |-> reply.chat_id,
                 job_data |-> pickle_dumps(lastDone[reply.chat_id].data)]}
        /\ \A j \in BagToSet(jobs) :
              j.chat_id = reply.chat_id => j.data = lastDone[reply.chat_id].data
        /\ OnlyTimer(reply.chat_id, lastDone[reply.chat_id].data)

\* A /set succeeded right after a /stop of the same chat.
C9_Witness == SetSucceeded /\ reply.after_stop

\* C10: the start-up rescheduling runs once per process and before any
\* command is handled; it installs one timer per stored record, with the
\* stored interval and the payload exactly as it was saved, and logs the
\* number of records.
C10_RescheduleAllStored ==
    /\ pc = "polling" => Len(loadLog) = 1
    /\ reply # NoCommand => pc = "polling"
    /\ (pc = "polling" /\ reply = NoCommand) =>
          /\ loadLog = <<Cardinality(rows)>>
          /\ BagCardinality(jobs) = Cardinality(rows)
          /\ \A r \in rows :
                /\ lastDone[r.chat_id].op = "set"
                /\ OnlyTimer(r.chat_id, lastDone[r.chat_id].data)

\* Rescheduled from a table holding a captioned photo and a sticker.
C10_Witness ==
    /\ pc = "polling"
    /\ reply = NoCommand
    /\ loadLog = <<2>>
    /\ \E j \in BagToSet(jobs) :
          j.data.media_type = "photo" /\ j.data.caption # None
    /\ \E j \in BagToSet(jobs) : j.data.media_type = "sticker"

\* C14: a /stop whose delete from the table fails leaves the chat's timer
\* and its record as they were.
C14_FailedDeleteChangesNothing ==
    [][(reply'.op = "stop" /\ reply'.text = Raised)
          => (rows' = rows /\ jobs' = jobs)]_vars

\* C16: a successful /set tells the caller whether it replaced a schedule:
\* a /set that cancelled a live timer and one that did not never give the
\* same report.
C16_SetReportsReplaced ==
    [][(SetSucceeded /\ SetSucceeded' /\ reply'.removed # reply.removed)
          => (reply'.text # reply.text)]_vars

\* C20: every live timer carries the payload and the interval of the record
\* the table holds for its chat.
C20_TimerMatchesRecord ==
    \A j \in BagToSet(jobs) :
        /\ HasRecord(j.chat_id)
        /\ \A r \in RecordsOf(j.chat_id) :
              /\ pickle_loads(r.job_data) = j.data
              /\ j.interval =
                     pickle_loads(r.job_data).interval_minutes * SECONDS_PER_MINUTE

\* The write of a /set with another payload failed on a chat whose timer
\* was installed at start-up.
C20_Witness ==
    /\ reply.op = "set"
    /\ reply.text = Raised
    /\ \E j \in BagToSet(jobs) :
          /\ j.chat_id = reply.chat_id
          /\ j.first = RESTART_FIRST
          /\ j.data.media_type = "photo"
    /\ HasTimer(Other(reply.chat_id))

\* C11: start-up over a table with one record that cannot be unpickled and
\* well-formed records for other chats goes on to polling with a live timer
\* for every well-formed record.
Malformed  == {r \in rows : UnpicklingError(r.job_data)}

C11_ReconcileSkipsMalformed ==
    [][(/\ pc = "init"
        /\ Cardinality(Malformed) = 1
        /\ rows \ Malformed # {})
          => (/\ pc' = "polling"
              /\ \A r \in rows \ Malformed :
                    \E j \in BagToSet(jobs') :
                        j.chat_id = r.chat_id
                            /\ j.data = pickle_loads(r.job_data))]_vars

(***************************************************************************)
(* Steps of SpecTick, told apart by what they change.                      *)
(***************************************************************************)
\* A callback ended.
DeliverStep ==
    pc' = pc /\ inflight' # inflight /\ inflight' \subseteq inflight

\* The job of chat c ran.
FireStep(c) ==
    pc = "polling" /\ pc' = pc /\ sched'[c].runs = sched[c].runs + 1

\* A /set or /stop was handled; reply' tells which and for which chat.
CommandStep ==
    /\ pc = "polling" /\ pc' = pc /\ now' = now
    /\ ~DeliverStep
    /\ \A c \in Chats : ~FireStep(c)

InFlightFor(c) == {t \in inflight : t.job.chat_id = c}

TimersIn(queue, c) == {j \in BagToSet(queue) : j.chat_id = c}

\* C12: a callback whose send fails leaves the chat's job in the queue with
\* its interval and run times, raises nothing and has made one send.
C12_FailedSendKeepsTimer ==
    [][(DeliverStep /\ ~outcome'.ok)
          => (/\ jobs' = jobs
              /\ sched' = sched
              /\ ~outcome'.raised
              /\ outcome'.sends <= 1)]_vars

\* Three sends in a row failed and the chat's job is still in the queue.
C12_Witness ==
    /\ ~outcome.ok
    /\ outcome.streak >= 3
    /\ HasTimer(outcome.chat_id)
    /\ sched[outcome.chat_id].runs >= 3

C17_CommandsExcludeTicks ==
    [][CommandStep => InFlightFor(reply'.chat_id) = {}]_vars

\* C18: while a callback of one chat awaits its send, the due job of another
\* chat can run and its callback starts.
C18_TicksIndependent ==
    \A a \in Chats : \A b \in Chats \ {a} :
        (/\ pc = "polling"
         /\ InFlightFor(a) # {}
         /\ Cardinality(inflight) < MaxInflight
         /\ Due(b)
         /\ InFlightFor(b) = {})
            => ENABLED (fire(b) /\ \E t \in inflight' : t.job.chat_id = b)

\* Callbacks of both chats await their sends at the same time.
C18_Witness ==
    \A c \in Chats : InFlightFor(c) # {}

\* C19: a job that runs and a callback that ends, whatever its send did,
\* change neither the table nor the job queue.
C19_TickChangesNothing ==
    [][(DeliverStep \/ \E c \in Chats : FireStep(c))
          => (rows' = rows /\ jobs' = jobs /\ dbFile' = dbFile)]_vars

\* A callback has ended with a failed send after one ended with a good one;
\* the chat has its record and its job.
C19_Witness ==
    /\ ~outcome.ok
    /\ outcome.sends = 1
    /\ sched[outcome.chat_id].runs >= 2
    /\ HasRecord(outcome.chat_id)
    /\ HasTimer(outcome.chat_id)

\* C15: a /status handled right after a successful /set of the same chat
\* shows the interval and the content of that /set and a next run time, and the
\* table holds one record for the chat; a /status of a chat with no record
\* says nothing is scheduled.
StatusStep ==
    pc = "polling" /\ reply'.op = "status" /\ reply' # reply /\ reply'.text # Raised

C15_StatusShowsLastSet ==
    [][/\ (StatusStep /\ SetSucceeded /\ reply'.chat_id = reply.chat_id)
          => LET c == reply.chat_id
                 d == lastDone[c].data
             IN  /\ reply'.text = MsgStatus
                 /\ reply'.status.frequency = reply.minutes
                 /\ reply'.status.frequency = d.interval_minutes
                 /\ reply'.status.content_type = capitalize(d.media_type)
                 /\ reply'.status.preview
                        = ContentDesc(d, capitalize(d.media_type))
                 /\ reply'.status.next_send =
                        [pending_restart |-> FALSE,
                         next_t |-> now + reply.minutes * SECONDS_PER_MINUTE]
                 /\ Cardinality(RecordsOf(c)) = 1
       /\ (StatusStep /\ ~HasRecord(reply'.chat_id))
          => (reply'.text = MsgNoSchedule /\ reply'.status = NoStatus)]_vars

\* A /status has shown the cut preview of the long text a /set stored every
\* 60 minutes, while the other chat has another record.
C15_Witness ==
    /\ reply.op = "status"
    /\ lastDone[reply.chat_id].op = "set"
    /\ HasTimer(reply.chat_id)
    /\ reply.status = [frequency |-> MAX_MINUTES, content_type |-> "Text",
                       preview |-> [of |-> LongText, upto |-> PREVIEW_LEN,
                                    ellipsis |-> TRUE],
                       next_send |-> [pending_restart |-> FALSE,
                                      next_t |-> MAX_MINUTES * SECONDS_PER_MINUTE]]
    /\ HasRecord(Other(reply.chat_id))

====
